---------------------------- MODULE Spec2Model ----------------------------
(***************************************************************************)
(* A model of src/GPT.py: a decoder-only transformer (Head,                *)
(* MultiHeadAttention, FeedForward, Block, GPTLanguageModel) with its      *)
(* forward pass and its autoregressive generate loop.                      *)
(*                                                                         *)
(* Tensors are modelled by their shape and by one symbolic value per       *)
(* (batch row, position): the channel axis is folded into that value.      *)
(* The numerical library's operations (Linear, LayerNorm, ReLU, softmax,   *)
(* Dropout, matrix products) are uninterpreted function symbols: a value   *)
(* is the term of the operations that produced it, and two values are the  *)
(* same when their terms are.  The only arithmetic facts used are the ones *)
(* the masking relies on: exp(-inf) = 0, 0 * v = 0 and a + 0 = a for       *)
(* finite v and a.                                                         *)
(*                                                                         *)
(* The output of block l at position i is a term over the references       *)
(* <<"x", j>>, which stand for the value at position j of the same row of  *)
(* the tensor that entered block l.                                        *)
(***************************************************************************)
EXTENDS Integers, Sequences, FiniteSets, TLC

\* Bounds of the model.
MaxBlockSize == 3
MaxEmbed == 4
MaxLayer == 2
MaxHead == 2
MaxHeadSize == 2
MaxVocab == 2
MaxBatch == 2
MaxNewTokens == 2

VARIABLES
    block_size,     \* hyperparameter, GPT.py:8
    n_embed,        \* hyperparameter, GPT.py:13
    n_layer,        \* hyperparameter, GPT.py:14
    n_head,         \* hyperparameter, GPT.py:15
    vocab_size,     \* argument of GPTLanguageModel.__init__
    training,       \* nn.Module.training: whether the Dropout layers are active
    net,            \* the constructed module tree (its shapes)
    pc,             \* "new" before construction, "ready" after
    rng,            \* offset of the random generator Dropout and multinomial draw from
    fwd,            \* per run: the last call of GPTLanguageModel.forward and its outcome
    head,           \* the last direct call of Head.forward and its outcome
    gen,            \* per run: the call of GPTLanguageModel.generate in progress
    drawn           \* what torch.multinomial returned, per (distribution, generator offset, row)

hyper == <<block_size, n_embed, n_layer, n_head, vocab_size, training>>
vars == <<block_size, n_embed, n_layer, n_head, vocab_size, training,
          net, pc, rng, fwd, head, gen, drawn>>

Runs == {1, 2}

Min(a, b) == IF a <= b THEN a ELSE b

-----------------------------------------------------------------------------
(* Symbolic values *)

Zero == <<"zero">>
NegInf == <<"-inf">>
NaN == <<"nan">>
None == <<"None">>
X(j) == <<"x", j>>
Num(n) == <<"int", n>>
Param(name, l, h) == <<"param", name, l, h>>
Add(a, b) == <<"add", a, b>>
Linear(P, a) == <<"Linear", P, a>>
LayerNorm(P, a) == <<"LayerNorm", P, a>>
ReLU(a) == <<"ReLU", a>>

\* The terms that have no sub-terms.
LeafTags == {"x", "int", "param", "rng", "zero", "-inf", "nan", "None",
             "token_embedding_table", "position_embedding_table"}

\* nn.Dropout: the identity in eval mode; in training mode a random mask drawn
\* at generator offset k (a zero stays a zero under any mask).
Dropout(k, a) ==
    IF ~training \/ a = Zero THEN a ELSE <<"Dropout", <<"rng", k>>, a>>

\* The positions 0..T-1 of row whose entry is not skip, in increasing order.
Positions(row, T, skip) ==
    LET all == [k \in 1..T |-> k - 1]
    IN  SelectSeq(all, LAMBDA j : row[j] # skip)

-----------------------------------------------------------------------------
(* Construction *)

NoNet ==
    [constructed |-> FALSE, tok_rows |-> 0, pos_rows |-> 0, blocks |-> 0,
     num_heads |-> 0, head_size |-> 0, proj_in |-> 0, proj_out |-> 0,
     lm_out |-> 0]

\* Block.__init__ with MultiHeadAttention.__init__: the sizes of one block.
BlockInit(ne, nh) ==
    LET head_size == ne \div nh
    IN  [num_heads |-> nh, head_size |-> head_size,
         proj_in |-> head_size * nh, proj_out |-> ne]

\* GPTLanguageModel.__init__
GPTInit(vs) ==
    LET b == BlockInit(n_embed, n_head)
    IN  [constructed |-> TRUE, tok_rows |-> vs, pos_rows |-> block_size,
         blocks |-> n_layer, num_heads |-> b.num_heads,
         head_size |-> b.head_size, proj_in |-> b.proj_in,
         proj_out |-> b.proj_out, lm_out |-> vs]

-----------------------------------------------------------------------------
(* Head *)

\* Tril with torch.triu in place of torch.tril.
TrilUpper ==
    [i \in 0..block_size - 1 |->
        [j \in 0..block_size - 1 |-> IF j >= i THEN 1 ELSE 0]]

\* The buffer registered by Head.__init__: torch.tril(torch.ones(block_size, block_size)).
Tril ==
    [i \in 0..block_size - 1 |->
        [j \in 0..block_size - 1 |-> IF j <= i THEN 1 ELSE 0]]

\* self.tril[:T, :T] as masked_fill sees it against a (T, T) score matrix: the
\* slice has Min(T, block_size) rows and columns; a 1 x 1 slice broadcasts.
MaskShapeOk(T) == T <= block_size \/ block_size = 1

Mask(T) ==
    [i \in 0..T - 1 |->
        [j \in 0..T - 1 |->
            IF T <= block_size THEN Tril[i][j] ELSE Tril[0][0]]]

\* F.softmax over one row of scores: exp(-inf) is 0, and a row of only -inf
\* is NaN.  An entry is the pair of its own score and the row's finite scores.
Softmax(row, T) ==
    LET fin == Positions(row, T, NegInf)
        den == <<"row">> \o [k \in 1..Len(fin) |-> row[fin[k]]]
    IN  [j \in 0..T - 1 |->
            IF Len(fin) = 0 THEN NaN
            ELSE IF row[j] = NegInf THEN Zero
            ELSE <<"softmax", row[j], den>>]

\* Head.forward on the rows x[0..T-1] of one batch element; k is the generator
\* offset of its Dropout.  wei is the matrix after the softmax (line 36).
HeadForward(l, h, x, T, k) ==
    LET hs == net.head_size
        key == [j \in 0..T - 1 |-> Linear(Param("key", l, h), x[j])]
        query == [j \in 0..T - 1 |-> Linear(Param("query", l, h), x[j])]
        value == [j \in 0..T - 1 |-> Linear(Param("value", l, h), x[j])]
        mask == Mask(T)
        wei0 == [i \in 0..T - 1 |->
                    [j \in 0..T - 1 |->
                        IF mask[i][j] = 0 THEN NegInf
                        ELSE <<"scaled_dot", query[i], key[j], Num(hs)>>]]
        wei1 == [i \in 0..T - 1 |-> Softmax(wei0[i], T)]
        wei2 == [i \in 0..T - 1 |->
                    [j \in 0..T - 1 |-> Dropout(k, wei1[i][j])]]
        out == [i \in 0..T - 1 |->
                    LET used == Positions(wei2[i], T, Zero)
                    IN  <<"sum">> \o [n \in 1..Len(used) |->
                            <<"mul", wei2[i][used[n]], value[used[n]]>>]]
    IN  IF hs = 0
        THEN [status |-> "ZeroDivisionError", wei |-> <<>>, out |-> <<>>]
        ELSE IF ~MaskShapeOk(T)
        THEN [status |-> "RuntimeError", wei |-> <<>>, out |-> <<>>]
        ELSE [status |-> "ok", wei |-> wei1, out |-> out]

-----------------------------------------------------------------------------
(* MultiHeadAttention, FeedForward, Block *)

\* Dropout layers of one block, in the order they draw: one per head, then
\* MultiHeadAttention's, then FeedForward's.
DrawsPerBlock == net.num_heads + 2

\* MultiHeadAttention.forward, at position i
MultiHeadAttention(l, x, T, k, i) ==
    LET heads == [n \in 1..net.num_heads |->
                    HeadForward(l, n - 1, x, T, k + n - 1).out[i]]
    IN  Dropout(k + net.num_heads,
                Linear(Param("proj", l, -1), <<"cat">> \o heads))

\* FeedForward.forward: Linear, ReLU, Linear, Dropout
FeedForward(l, a, k) ==
    Dropout(k, Linear(Param("net.2", l, -1),
                      ReLU(Linear(Param("net.0", l, -1), a))))

\* Block with each normalization applied to the sub-layer's input (pre-norm).
BlockPreNorm(l, x, T, k, i) ==
    LET n1 == [j \in 0..T - 1 |-> LayerNorm(Param("ln1", l, -1), x[j])]
        x1 == Add(x[i], MultiHeadAttention(l, n1, T, k, i))
        y2 == FeedForward(l, LayerNorm(Param("ln2", l, -1), x1),
                          k + net.num_heads + 1)
    IN  Add(x1, y2)

\* Block.forward, at position i
Block(l, x, T, k, i) ==
    LET y1 == MultiHeadAttention(l, x, T, k, i)
        x1 == LayerNorm(Param("ln1", l, -1), Add(x[i], y1))
        y2 == FeedForward(l, x1, k + net.num_heads + 1)
        x2 == LayerNorm(Param("ln2", l, -1), Add(x1, y2))
    IN  x2

-----------------------------------------------------------------------------
(* Tensors of token indices *)

NoTensor == [shape |-> <<>>, data |-> <<>>]
IsNone(t) == Len(t.shape) = 0
Numel(t) == t.shape[1] * t.shape[2]

\* A (B, T) tensor of valid token indices, row b starting at token s + b.
Ramp(B, T, s) ==
    [shape |-> <<B, T>>,
     data |-> [b \in 0..B - 1 |-> [t \in 0..T - 1 |-> (s + b + t) % vocab_size]]]

-----------------------------------------------------------------------------
(* GPTLanguageModel.forward *)

Failed(status, site, k) ==
    [status |-> status, site |-> site, shape |-> <<>>, emb |-> <<>>,
     blocks |-> <<>>, logits |-> <<>>, loss |-> None, rng |-> k]

\* The flattened targets paired with the flattened logits rows they score:
\* logits.view(B*T, C) and targets.view(B*T) are both row-major.
CrossEntropy(B, T, targets) ==
    <<"cross_entropy">> \o
        [n \in 1..B * T |->
            <<(n - 1) \div T, (n - 1) % T,
              targets.data[(n - 1) \div targets.shape[2]][(n - 1) % targets.shape[2]]>>]

Forward(index, targets, k0) ==
    LET B == index.shape[1]
        T == index.shape[2]
        x == [j \in 0..T - 1 |-> X(j)]
        emb == [b \in 0..B - 1 |-> [t \in 0..T - 1 |->
                    Add(<<"token_embedding_table", index.data[b][t]>>,
                        <<"position_embedding_table", t>>)]]
        blocks == [l \in 0..net.blocks - 1 |-> [i \in 0..T - 1 |->
                    Block(l, x, T, k0 + l * DrawsPerBlock, i)]]
        logits == [t \in 0..T - 1 |->
                    Linear(Param("lm_head", -1, -1),
                           LayerNorm(Param("ln_f", -1, -1), X(t)))]
        k1 == IF training THEN k0 + net.blocks * DrawsPerBlock ELSE k0
        C == net.lm_out
    IN  IF \E b \in 0..B - 1, t \in 0..T - 1 :
                index.data[b][t] \notin 0..net.tok_rows - 1
        THEN Failed("IndexError", "token_embedding_table", k0)
        ELSE IF T > net.pos_rows
        THEN Failed("IndexError", "position_embedding_table", k0)
        ELSE IF net.blocks > 0 /\ HeadForward(0, 0, x, T, k0).status # "ok"
        THEN Failed(HeadForward(0, 0, x, T, k0).status, "Head.forward", k0)
        ELSE IF IsNone(targets)
        THEN [status |-> "ok", site |-> "return", shape |-> <<B, T, C>>,
              emb |-> emb, blocks |-> blocks, logits |-> logits,
              loss |-> None, rng |-> k1]
        ELSE IF Numel(targets) # B * T
        THEN Failed("RuntimeError", "targets.view", k1)
        ELSE [status |-> "ok", site |-> "return", shape |-> <<B * T, C>>,
              emb |-> emb, blocks |-> blocks, logits |-> logits,
              loss |-> CrossEntropy(B, T, targets), rng |-> k1]

-----------------------------------------------------------------------------
(* GPTLanguageModel.generate *)

\* index[:, :block_size]: the first block_size columns.
CropFirst(index) ==
    LET W == Min(index.shape[2], block_size)
    IN  [shape |-> <<index.shape[1], W>>,
         data |-> [b \in 0..index.shape[1] - 1 |->
                    [t \in 0..W - 1 |-> index.data[b][t]]]]

\* index[:, -block_size:]: the last block_size columns, all of them when there
\* are fewer.
Crop(index) ==
    LET B == index.shape[1]
        L == index.shape[2]
        W == Min(L, block_size)
    IN  [shape |-> <<B, W>>,
         data |-> [b \in 0..B - 1 |->
                    [t \in 0..W - 1 |-> index.data[b][L - W + t]]]]

\* torch.cat((index_next, index), dim=1): the new column in front.
CatFront(index, index_next) ==
    LET B == index.shape[1]
        L == index.shape[2]
    IN  [shape |-> <<B, L + 1>>,
         data |-> [b \in 0..B - 1 |->
                    [t \in 0..L |->
                        IF t = 0 THEN index_next[b] ELSE index.data[b][t - 1]]]]

\* torch.cat((index, index_next), dim=1)
Cat(index, index_next) ==
    LET B == index.shape[1]
        L == index.shape[2]
    IN  [shape |-> <<B, L + 1>>,
         data |-> [b \in 0..B - 1 |->
                    [t \in 0..L |->
                        IF t < L THEN index.data[b][t] ELSE index_next[b]]]]

\* What identifies one row's draw: the distribution (the logits of the last
\* position are a function of the whole window passed to forward and of the
\* generator offsets of its Dropout layers), the generator offset k at the
\* draw, and the row.
DrawKey(index_cond, k, b) == <<index_cond.data, k, b>>

\* A sampler that does not read the generator: any token, at any offset.
MultinomialUnseeded(key, tok) == TRUE

\* torch.multinomial(probs, num_samples=1) for one row: any token (softmax
\* leaves every probability positive), and the same token whenever the same
\* distribution is sampled at the same generator offset.
Multinomial(key, tok) == key \in DOMAIN drawn => tok = drawn[key]

-----------------------------------------------------------------------------
(* State machine *)

NoCall == [called |-> FALSE, index |-> NoTensor, targets |-> NoTensor,
           rng0 |-> 0, res |-> Failed("none", "none", 0)]
NoHead == [called |-> FALSE, T |-> 0, rng0 |-> 0,
           res |-> [status |-> "none", wei |-> <<>>, out |-> <<>>]]

NoGen == [state |-> "none", prompt |-> NoTensor, max_new_tokens |-> 0,
          index |-> NoTensor, left |-> 0, rng0 |-> 0, site |-> "none",
          calls |-> 0, seen |-> NoTensor, arg |-> NoTensor]

\* The state before the model is constructed.
InitState ==
    /\ training \in BOOLEAN
    /\ net = NoNet
    /\ pc = "new"
    /\ rng = 0
    /\ fwd = [r \in Runs |-> NoCall]
    /\ head = NoHead
    /\ gen = [r \in Runs |-> NoGen]
    /\ drawn = <<>>

\* Hyperparameters with n_embed a multiple of n_head, as the repository's are
\* (384 and 8).
ValidHyper ==
    /\ block_size \in 1..MaxBlockSize
    /\ n_layer \in 1..MaxLayer
    /\ n_head \in 1..MaxHead
    /\ n_embed \in {n_head * hs : hs \in 1..MaxHeadSize}

\* model = GPTLanguageModel(vocab_size)
Construct ==
    /\ pc = "new"
    /\ net' = GPTInit(vocab_size)
    /\ pc' = "ready"
    /\ UNCHANGED <<hyper, rng, fwd, head, gen, drawn>>

\* run r calls model.forward(index, targets)
CallForward(r, index, targets) ==
    /\ pc = "ready"
    /\ ~fwd[r].called
    /\ \E res \in {Forward(index, targets, rng)} :
           /\ fwd' = [fwd EXCEPT ![r] =
                        [called |-> TRUE, index |-> index, targets |-> targets,
                         rng0 |-> rng, res |-> res]]
           /\ rng' = res.rng
    /\ UNCHANGED <<hyper, net, pc, head, gen, drawn>>

\* a direct call of Head.forward on T symbolic rows
CallHead(T) ==
    /\ pc = "ready"
    /\ ~head.called
    /\ \E res \in {HeadForward(0, 0, [j \in 0..T - 1 |-> X(j)], T, rng)} :
           /\ head' = [called |-> TRUE, T |-> T, rng0 |-> rng, res |-> res]
           /\ rng' = IF training /\ res.status = "ok" THEN rng + 1 ELSE rng
    /\ UNCHANGED <<hyper, net, pc, fwd, gen, drawn>>

\* run r calls model.generate(prompt, k)
CallGenerate(r, prompt, k) ==
    /\ pc = "ready"
    /\ gen[r].state = "none"
    /\ gen' = [gen EXCEPT ![r] =
                [NoGen EXCEPT !.state = "running", !.prompt = prompt,
                              !.max_new_tokens = k, !.index = prompt,
                              !.left = k, !.rng0 = rng]]
    /\ UNCHANGED <<hyper, net, pc, rng, fwd, head, drawn>>

\* one iteration of the loop of generate
GenerateStep(r) ==
    /\ gen[r].state = "running"
    /\ gen[r].left > 0
    /\ \E index_cond \in {Crop(gen[r].index)} :
       \E res \in {Forward(index_cond, NoTensor, rng)} :
       LET index == gen[r].index
           B == index.shape[1]
           called == [gen[r] EXCEPT !.calls = @ + 1, !.seen = index,
                                    !.arg = index_cond]
       IN  IF res.status # "ok"
           THEN /\ gen' = [gen EXCEPT ![r] =
                            [called EXCEPT !.state = "raised", !.site = res.site]]
                /\ rng' = res.rng
                /\ UNCHANGED drawn
           ELSE IF res.shape[2] = 0
           THEN \* logits[:, -1, :] of a tensor with no position
                /\ gen' = [gen EXCEPT ![r] =
                            [called EXCEPT !.state = "raised",
                                           !.site = "logits[:, -1, :]"]]
                /\ rng' = res.rng
                /\ UNCHANGED drawn
           ELSE \E index_next \in [0..B - 1 -> 0..res.shape[3] - 1] :
                /\ \A b \in 0..B - 1 :
                        Multinomial(DrawKey(index_cond, res.rng, b), index_next[b])
                /\ drawn' =
                        [key \in DOMAIN drawn \cup
                                 {DrawKey(index_cond, res.rng, b) : b \in 0..B - 1} |->
                            IF key \in DOMAIN drawn THEN drawn[key]
                            ELSE index_next[key[3]]]
                /\ rng' = res.rng + 1
                /\ gen' = [gen EXCEPT ![r] =
                            [called EXCEPT !.index = Cat(index, index_next),
                                           !.left = @ - 1]]
    /\ UNCHANGED <<hyper, net, pc, fwd, head>>

\* return index
GenerateReturn(r) ==
    /\ gen[r].state = "running"
    /\ gen[r].left = 0
    /\ gen' = [gen EXCEPT ![r].state = "returned"]
    /\ UNCHANGED <<hyper, net, pc, rng, fwd, head, drawn>>

\* The caller restores the generator to its seeded state (torch.manual_seed),
\* between calls: generate runs to completion once called.
Reseed ==
    /\ pc = "ready"
    /\ rng # 0
    /\ \A r \in Runs : gen[r].state # "running"
    /\ rng' = 0
    /\ UNCHANGED <<hyper, net, pc, fwd, head, gen, drawn>>

\* Sequence lengths a caller passes: within the context window and one past it.
Lengths == 1..block_size + 1

-----------------------------------------------------------------------------
(* Spec: one forward call, any hyperparameters, any shapes of index and targets *)

Init ==
    /\ block_size \in 1..MaxBlockSize
    /\ n_layer \in 1..MaxLayer
    /\ n_head \in 1..MaxHead
    /\ n_embed \in 1..MaxEmbed
    /\ vocab_size \in 1..MaxVocab
    /\ InitState

Next ==
    \/ Construct
    \/ \E B \in 1..MaxBatch, T \in Lengths :
            CallForward(1, Ramp(B, T, 0), NoTensor)
    \/ \E B \in 1..MaxBatch, T \in Lengths, B2 \in 1..MaxBatch, T2 \in Lengths :
            CallForward(1, Ramp(B, T, 0), Ramp(B2, T2, 1))

Spec == Init /\ [][Next]_vars

\* C3: for every valid (B, T) input with T <= block_size, forward returns logits
\* of shape (B, T, vocab_size), with targets omitted and with targets of shape
\* (B, T) supplied.
ForwardLogitsShape ==
    \A r \in Runs :
        ( /\ fwd[r].called
          /\ n_embed % n_head = 0
          /\ fwd[r].index.shape[2] <= block_size
          /\ IsNone(fwd[r].targets) \/ fwd[r].targets.shape = fwd[r].index.shape )
        => /\ fwd[r].res.status = "ok"
           /\ fwd[r].res.shape =
                <<fwd[r].index.shape[1], fwd[r].index.shape[2], vocab_size>>

\* C4: forward with T > block_size ends in an error raised by a guard of
\* forward itself, before any lookup in the position embedding table.
ForwardGuardsLength ==
    \A r \in Runs :
        (fwd[r].called /\ fwd[r].index.shape[2] > block_size)
        => /\ fwd[r].res.status # "ok"
           /\ fwd[r].res.site = "forward"

\* C5: no model is constructed whose head size times its number of heads
\* differs from n_embed (construction with n_embed not divisible by n_head
\* raises a configuration error).
HeadSizeInvariant ==
    net.constructed =>
        /\ n_embed % n_head = 0
        /\ net.head_size * net.num_heads = n_embed

\* C6: forward with targets whose batch dimension differs from that of index
\* fails and returns no (logits, loss).
BatchMismatchFails ==
    \A r \in Runs :
        ( /\ fwd[r].called
          /\ ~IsNone(fwd[r].targets)
          /\ fwd[r].targets.shape[1] # fwd[r].index.shape[1] )
        => fwd[r].res.status # "ok"

-----------------------------------------------------------------------------
(* SpecArch: valid hyperparameters; Head.forward and forward on valid input *)

InitArch ==
    /\ ValidHyper
    /\ vocab_size \in 1..MaxVocab
    /\ InitState

NextArch ==
    \/ Construct
    \/ Reseed
    \/ \E T \in 1..block_size : CallForward(1, Ramp(1, T, 0), NoTensor)
    \/ \E T \in Lengths : CallHead(T)

SpecArch == InitArch /\ [][NextArch]_vars

Undrop(a) == IF a[1] = "Dropout" THEN a[3] ELSE a

\* C9: in Head.forward with 1 <= T <= block_size, row i of the attention
\* matrix has exactly the positions 0..i unmasked, weight zero at every j > i,
\* and weights that are each exp(score) over the sum of the row's unmasked
\* exp(score), so that they sum to 1.
HeadMaskRows ==
    (head.called /\ head.T >= 1 /\ head.T <= block_size) =>
        /\ head.res.status = "ok"
        /\ \A i \in 0..head.T - 1 :
            LET row == head.res.wei[i]
            IN  /\ {j \in 0..head.T - 1 : row[j] # Zero} = 0..i
                /\ \A j \in 0..i : row[j][1] = "softmax"
                /\ \A j \in 0..i :
                    /\ row[j][2][1] = "scaled_dot"
                    /\ row[j][3] = <<"row">> \o [n \in 1..i + 1 |-> row[n - 1][2]]

HeadMaskRowsWitness ==
    /\ head.called
    /\ head.T >= 2
    /\ head.T <= block_size
    /\ head.res.status = "ok"
    /\ head.res.wei[0][1] = Zero

\* One head's output at position i reads the block's input: the query from
\* x[i], each key and its value from the same x[j].
HeadReadsInput(o, l, h, i) ==
    /\ o[1] = "sum"
    /\ \A n \in 2..Len(o) :
        LET w == Undrop(o[n][2])
        IN  /\ w[1] = "softmax"
            /\ w[2][2] = Linear(Param("query", l, h), X(i))
            /\ w[2][3][1] = "Linear"
            /\ w[2][3][2] = Param("key", l, h)
            /\ w[2][3][3][1] = "x"
            /\ o[n][3] = Linear(Param("value", l, h), w[2][3][3])

IsPostNormBlock(t, l, i) ==
    /\ t[1] = "LayerNorm"
    /\ t[2] = Param("ln2", l, -1)
    /\ t[3][1] = "add"
    /\ LET x1 == t[3][2]
       IN  /\ Undrop(t[3][3]) =
                Linear(Param("net.2", l, -1),
                       ReLU(Linear(Param("net.0", l, -1), x1)))
           /\ x1[1] = "LayerNorm"
           /\ x1[2] = Param("ln1", l, -1)
           /\ x1[3][1] = "add"
           /\ x1[3][2] = X(i)
           /\ LET y1 == Undrop(x1[3][3])
              IN  /\ y1[1] = "Linear"
                  /\ y1[2] = Param("proj", l, -1)
                  /\ y1[3][1] = "cat"
                  /\ Len(y1[3]) = n_head + 1
                  /\ \A h \in 1..n_head :
                        HeadReadsInput(y1[3][h + 1], l, h - 1, i)

\* C10: block l returns LayerNorm2(x' + FeedForward(x')) with
\* x' = LayerNorm1(x + MultiHeadAttention(x)), the attention reading x and the
\* feed-forward reading x'; forward applies blocks 0..n_layer-1 in order, then
\* the final normalization, then the output head.
BlockPostNorm ==
    \A r \in Runs :
        (fwd[r].called /\ fwd[r].res.status = "ok") =>
            /\ DOMAIN fwd[r].res.blocks = 0..n_layer - 1
            /\ \A l \in 0..n_layer - 1, i \in 0..fwd[r].index.shape[2] - 1 :
                    IsPostNormBlock(fwd[r].res.blocks[l][i], l, i)
            /\ \A t \in 0..fwd[r].index.shape[2] - 1 :
                    fwd[r].res.logits[t] =
                        Linear(Param("lm_head", -1, -1),
                               LayerNorm(Param("ln_f", -1, -1), X(t)))

BlockPostNormWitness ==
    /\ fwd[1].called
    /\ fwd[1].res.status = "ok"
    /\ n_layer >= 2
    /\ n_head >= 2
    /\ fwd[1].index.shape[2] >= 2

-----------------------------------------------------------------------------
(* SpecCausal: two forward calls on inputs of the same shape (1, T) *)

CausalTokens == {0, 1}

InitCausal ==
    /\ ValidHyper
    /\ vocab_size = Cardinality(CausalTokens)
    /\ InitState

RowTensor(row, T) == [shape |-> <<1, T>>, data |-> [b \in {0} |-> row]]

\* Run 1 passes a fixed input, run 2 any input of the same shape: over two
\* tokens every set of positions at which the two inputs differ occurs.
NextCausal ==
    \/ Construct
    \/ Reseed
    \/ \E T \in 1..block_size :
            /\ fwd[2].called => fwd[2].index.shape[2] = T
            /\ CallForward(1, Ramp(1, T, 0), NoTensor)
    \/ \E T \in 1..block_size :
        \E row \in [0..T - 1 -> CausalTokens] :
            /\ fwd[1].called => fwd[1].index.shape[2] = T
            /\ CallForward(2, RowTensor(row, T), NoTensor)

SpecCausal == InitCausal /\ [][NextCausal]_vars

\* The positions of the block's input that a term reads.
RECURSIVE Refs(_)
Refs(t) ==
    IF t[1] \in LeafTags
    THEN IF t[1] = "x" THEN {t[2]} ELSE {}
    ELSE UNION {Refs(t[n]) : n \in 2..Len(t)}

\* Runs 1 and 2 hold the same value at position j of row b of the tensor that
\* enters block l (for l = n_layer: that leaves the last block).
RECURSIVE SameValue(_, _, _)
SameValue(l, b, j) ==
    IF l = 0
    THEN fwd[1].res.emb[b][j] = fwd[2].res.emb[b][j]
    ELSE /\ fwd[1].res.blocks[l - 1][j] = fwd[2].res.blocks[l - 1][j]
         /\ \A m \in Refs(fwd[1].res.blocks[l - 1][j]) : SameValue(l - 1, b, m)

SameLogits(b, i) ==
    /\ fwd[1].res.logits[i] = fwd[2].res.logits[i]
    /\ \A m \in Refs(fwd[1].res.logits[i]) : SameValue(n_layer, b, m)

BothForwardOk ==
    /\ fwd[1].called /\ fwd[1].res.status = "ok"
    /\ fwd[2].called /\ fwd[2].res.status = "ok"
    /\ fwd[1].index.shape = fwd[2].index.shape
    /\ fwd[1].rng0 = fwd[2].rng0

AgreeUpTo(b, i) ==
    \A j \in 0..i : fwd[1].index.data[b][j] = fwd[2].index.data[b][j]

\* C2: two forward calls on inputs of the same shape that agree on positions
\* 0..i (made from the same generator state) give the same logits at position i.
ForwardCausal ==
    BothForwardOk =>
        \A b \in 0..fwd[1].index.shape[1] - 1, i \in 0..fwd[1].index.shape[2] - 1 :
            AgreeUpTo(b, i) => SameLogits(b, i)

ForwardCausalWitness ==
    /\ BothForwardOk
    /\ n_layer >= 2
    /\ n_head >= 2
    /\ training
    /\ fwd[1].index.shape[2] >= 3
    /\ AgreeUpTo(0, 1)
    /\ fwd[1].index.data[0][2] # fwd[2].index.data[0][2]
    /\ SameLogits(0, 1)
    /\ ~SameLogits(0, 2)

-----------------------------------------------------------------------------
(* SpecGen: generate, and a second run of it from the same generator state *)

GenTokens == {0, 1}

\* generate reads block_size only; the rest is the smallest valid model.
InitGen ==
    /\ block_size \in 1..MaxBlockSize
    /\ n_layer = 1
    /\ n_head = 1
    /\ n_embed = 1
    /\ vocab_size = Cardinality(GenTokens)
    /\ InitState

\* Prompt lengths: empty, within the context window, and past it.
PromptLengths == 0..block_size + 1

NextGen ==
    \/ Construct
    \/ Reseed
    \/ \E B \in 1..MaxBatch, T0 \in PromptLengths, k \in 0..MaxNewTokens :
            CallGenerate(1, Ramp(B, T0, 0), k)
    \/ /\ gen[1].state \in {"returned", "raised"}
       /\ rng = 0
       /\ CallGenerate(2, gen[1].prompt, gen[1].max_new_tokens)
    \/ \E r \in Runs : GenerateStep(r)
    \/ \E r \in Runs : GenerateReturn(r)

SpecGen == InitGen /\ [][NextGen]_vars

\* Columns 0..n-1 of b are the columns 0..n-1 of a.
SamePrefix(a, b, n) ==
    /\ a.shape[1] = b.shape[1]
    /\ a.shape[2] >= n
    /\ b.shape[2] >= n
    /\ \A row \in 0..a.shape[1] - 1, t \in 0..n - 1 :
            a.data[row][t] = b.data[row][t]

\* The number of loop steps run r has completed.
Steps(r) == gen[r].max_new_tokens - gen[r].left

\* After each completed step the running sequence is the prompt followed by
\* one column per step, and generate returns shape (B, T0 + k).
GrowsByOne(r) ==
    /\ gen[r].state # "raised"
    /\ gen[r].index.shape =
            <<gen[r].prompt.shape[1], gen[r].prompt.shape[2] + Steps(r)>>
    /\ SamePrefix(gen[r].prompt, gen[r].index, gen[r].prompt.shape[2])
    /\ gen[r].calls = Steps(r)
    /\ gen[r].calls > 0 =>
            /\ gen[r].index.shape[2] = gen[r].seen.shape[2] + 1
            /\ SamePrefix(gen[r].seen, gen[r].index, gen[r].seen.shape[2])
    /\ gen[r].state = "returned" => gen[r].left = 0

\* C1 as stated: for every prompt of shape (B, T0) and every k >= 0, generate
\* returns a sequence of shape (B, T0 + k) whose first T0 columns are the
\* prompt, each step adding one column and leaving the others unchanged.
GenerateShape ==
    \A r \in Runs : gen[r].state # "none" => GrowsByOne(r)

\* C1: for every prompt of shape (B, T0) with T0 >= 1, or with k = 0,
\* generate returns a sequence of shape (B, T0 + k) whose first T0 columns are
\* the prompt, each step adding one column and leaving the others unchanged.
GenerateShapeNonEmpty ==
    \A r \in Runs :
        ( /\ gen[r].state # "none"
          /\ gen[r].prompt.shape[2] >= 1 \/ gen[r].max_new_tokens = 0 )
        => GrowsByOne(r)

GenerateShapeWitness ==
    /\ gen[1].state = "returned"
    /\ gen[1].prompt.shape = <<MaxBatch, block_size + 1>>
    /\ gen[1].max_new_tokens = MaxNewTokens
    /\ gen[1].index.shape = <<MaxBatch, block_size + 1 + MaxNewTokens>>
    /\ gen[1].index.data[0][block_size + 1] # gen[1].index.data[0][block_size + 2]

\* C7: two runs of generate from the same parameters, prompt, max_new_tokens
\* and generator state, with dropout disabled, append the same token at every
\* step, end the same way and return identical sequences.
GenerateDeterministic ==
    ( /\ ~training
      /\ gen[2].state # "none"
      /\ gen[2].prompt = gen[1].prompt
      /\ gen[2].max_new_tokens = gen[1].max_new_tokens
      /\ gen[2].rng0 = gen[1].rng0 )
    => /\ SamePrefix(gen[2].index, gen[1].index, gen[2].index.shape[2])
       /\ gen[2].state \in {"returned", "raised"} =>
            /\ gen[2].state = gen[1].state
            /\ gen[2].site = gen[1].site
            /\ gen[2].index = gen[1].index

GenerateDeterministicWitness ==
    /\ ~training
    /\ gen[2].state = "returned"
    /\ gen[2].rng0 = gen[1].rng0
    /\ gen[2].max_new_tokens = MaxNewTokens
    /\ gen[2].prompt.shape[1] = MaxBatch
    /\ gen[2].index = gen[1].index
    /\ gen[2].index.data[0][gen[2].index.shape[2] - 1] # gen[2].index.data[1][gen[2].index.shape[2] - 1]

\* C8: every step of generate calls forward on exactly the last
\* min(L, block_size) tokens of the running sequence of length L, in order, so
\* never on more than block_size tokens, and the running sequence keeps every
\* column it had.
GenerateCropsWindow ==
    \A r \in Runs :
        gen[r].calls > 0 =>
            LET L == gen[r].seen.shape[2]
                W == gen[r].arg.shape[2]
            IN  /\ W = Min(L, block_size)
                /\ W <= block_size
                /\ gen[r].arg.shape[1] = gen[r].seen.shape[1]
                /\ \A b \in 0..gen[r].seen.shape[1] - 1, t \in 0..W - 1 :
                        gen[r].arg.data[b][t] = gen[r].seen.data[b][L - W + t]
                /\ DOMAIN gen[r].arg.data[0] = 0..W - 1
                /\ gen[r].index.shape[2] >= L
                /\ SamePrefix(gen[r].seen, gen[r].index, L)

GenerateCropsWindowWitness ==
    /\ gen[1].state = "returned"
    /\ gen[1].calls >= 2
    /\ gen[1].prompt.shape[2] > block_size
    /\ gen[1].seen.shape[2] > block_size + 1
    /\ gen[1].arg.shape[2] = block_size
    /\ gen[1].index.shape[2] = gen[1].seen.shape[2] + 1

=============================================================================
